---- MODULE Spec2Model ----
(***************************************************************************)
(* Model of rvn::MessageHandler (src/message_handlers.hpp): the handlers   *)
(* for ClientSetup, ServerSetup, Subscribe and ObjectStream messages and   *)
(* the generic handle_message<MessageType> entry point, acting on one      *)
(* ConnectionState.                                                        *)
(***************************************************************************)
EXTENDS Integers, Sequences, FiniteSets, TLC

\* ------------------------------------------------------------------ bounds
\* longest supportedversions list of a ClientSetupMessage
MaxVersions == 3
\* longest parameters list of a ClientSetupMessage / ServerSetupMessage
MaxParams == 3
\* buffers kept in outboundControlQueue (the transport does not drain here)
MaxOutbound == 2
\* entries kept in the inbound payload queue
MaxInbound == 2
\* handler calls started by the threads of the concurrent specification
MaxCalls == 3

\* ------------------------------------------------------------ value domains
Versions == {1, 2}
Paths == {"", "/a"}
Roles == {"Publisher", "Subscriber"}
\* peerRole before any handler has written it
NoRole == "NoRole"
SubscribeIds == {7, 8}
Payloads == {<<1, 2>>, <<3>>}

SeqsUpTo(S, n) == UNION {[1..k -> S] : k \in 0..n}

\* one parameter bundle of a ClientSetupMessage: path and role
ClientParameters == [path : Paths, role : Roles]
\* one parameter bundle of a ServerSetupMessage: role only
ServerParameters == [role : Roles]

ClientSetupMessages ==
    [supportedversions : SeqsUpTo(Versions, MaxVersions),
     parameters : SeqsUpTo(ClientParameters, MaxParams)]
ServerSetupMessages == [parameters : SeqsUpTo(ServerParameters, MaxParams)]
SubscribeMessages == [subscribeid : SubscribeIds]
ObjectStreamMessages == [subscribeid : SubscribeIds, objectpayload : Payloads]

\* QUIC_STATUS values returned by the handlers, and the two ways a handler
\* ends without returning one
QUIC_STATUS_SUCCESS == "QUIC_STATUS_SUCCESS"
QUIC_STATUS_INVALID_PARAMETER == "QUIC_STATUS_INVALID_PARAMETER"
\* utils::ASSERT_LOG_THROW failed: an exception leaves the handler
Thrown == "Thrown"
\* the out-of-range element access ended the process
Crashed == "Crashed"

\* ------------------------------------------------------------------- state
VARIABLES
    version,                      \* moqt.version
    path,                         \* connectionState.path
    peerRole,                     \* connectionState.peerRole
    expectControlStreamShutdown,  \* connectionState.expectControlStreamShutdown
    outboundControlQueue,         \* buffers given to enqueue_control_buffer
    inboundPayloadQueue,          \* entries given to add_to_queue
    running,                      \* FALSE once the process has been ended
    pc,                           \* "idle", or "done" when a handler call has just ended
    last,                         \* the handler call just made: message, result, state before it
    clientSetupSuccesses,         \* history: ClientSetup calls that returned QUIC_STATUS_SUCCESS
    pathCommitRole,               \* history: role committed by the first ClientSetup that
                                  \* committed a non-empty path, NoRole before
    threads,                      \* per thread: the statement its handler call stands at
    nextCall,                     \* handler calls started by the threads so far
    roleWriter,                   \* history: the handler call that last wrote peerRole
    dataInsideSetup,              \* history: a Subscribe or ObjectStream handler ran while
                                  \* another thread was inside a setup handler
    appendsDone,                  \* history: queue appends made by the threads
    data_,                        \* per publisher: instrumentId -> InstrumentData
    subscribers_,                 \* per publisher: instrumentId -> subscriber ids
    requestCount_,                \* FreeSubscriber::requestCount_
    request,                      \* the get_data call just made and its reply
    history,                      \* history: subscriptions and updates made so far
    ptr,                          \* UniquePtr::ptr of every UniquePtr object
    live,                         \* UniquePtr objects constructed and not destroyed
    deleted,                      \* per heap object: how often delete ran on it
    allocated,                    \* heap objects handed out by new
    callerHeld,                   \* raw pointers the caller owns after release()
    lastOp                        \* the UniquePtr operation just made

connVars == <<path, peerRole, expectControlStreamShutdown,
              outboundControlQueue, inboundPayloadQueue>>
vars == <<version, path, peerRole, expectControlStreamShutdown,
          outboundControlQueue, inboundPayloadQueue, running, pc, last,
          clientSetupSuccesses, pathCommitRole,
          threads, nextCall, roleWriter, dataInsideSetup, appendsDone,
          data_, subscribers_, requestCount_, request, history,
          ptr, live, deleted, allocated, callerHeld, lastOp>>
histVars == <<clientSetupSuccesses, pathCommitRole>>
threadVars == <<threads, nextCall, roleWriter, dataInsideSetup, appendsDone>>
\* what the sequential specification uses and the concurrent one leaves alone
callVars == <<pc, last, clientSetupSuccesses, pathCommitRole>>
\* the publisher / subscriber program
marketVars == <<data_, subscribers_, requestCount_, request, history>>
\* the UniquePtr objects and the heap
ptrVars == <<ptr, live, deleted, allocated, callerHeld, lastOp>>
\* the message handlers
handlerVars == <<version, connVars, callVars, threadVars>>

\* the threads on which the transport delivers messages of one connection
Threads == {"control", "data"}
IdleThread == [pc |-> "idle", kind |-> "None", params |-> <<>>]
NoWriter == [kind |-> "None", params |-> <<>>]

\* the Connection State as one record (used for the snapshot in last.pre)
ConnectionState ==
    [path |-> path,
     peerRole |-> peerRole,
     expectControlStreamShutdown |-> expectControlStreamShutdown,
     outboundControlQueue |-> outboundControlQueue,
     inboundPayloadQueue |-> inboundPayloadQueue]

\* ----------------------------------------------------- external collaborators
\* serialization::serialize(header, message): the buffer is the pair it was
\* built from, tagged as serialized
serialize(header, setupMessage) ==
    [buffer |-> "QUIC_BUFFER", messagetype |-> header.messagetype,
     parameters |-> setupMessage.parameters]

\* ConnectionState::enqueue_control_buffer
enqueue_control_buffer(queue, quicBuffer) == Append(queue, quicBuffer)

\* ConnectionState::add_to_queue, called with the payload alone
add_to_queue(queue, objectpayload) == Append(queue, [payload |-> objectpayload])

\* ------------------------------------------------------------------ helpers
\* std::find(begin, end, v) followed by std::distance(begin, it): the 0-based
\* index of the first element equal to v, Len(s) for end()
RECURSIVE FindFrom(_, _, _)
FindFrom(s, v, i) ==
    IF i >= Len(s) THEN Len(s)
    ELSE IF s[i + 1] = v THEN i
    ELSE FindFrom(s, v, i + 1)

\* variant of Find: a missing element is reported as the first
FindFirstOrZero(s, v) ==
    IF FindFrom(s, v, 0) = Len(s) /\ Len(s) > 0 THEN 0 ELSE FindFrom(s, v, 0)

\* variant of Find: the last element equal to v instead of the first
RECURSIVE FindLastFrom(_, _, _)
FindLastFrom(s, v, i) ==
    IF i = 0 THEN Len(s)
    ELSE IF s[i] = v THEN i - 1
    ELSE FindLastFrom(s, v, i - 1)

FindLast(s, v) == FindLastFrom(s, v, Len(s))

Find(s, v) == FindFrom(s, v, 0)

\* The record of a handler call: the message, how the handler ended, the
\* Connection State before it, the indices of the parameter bundles it read,
\* whether it read parameters().size(), the calls it made to
\* moqt.try_register_subscription and the value that call returned.
Call(op, msg, result, reads, sizeRead, calls, err) ==
    [op |-> op, msg |-> msg, result |-> result, pre |-> ConnectionState,
     reads |-> reads, sizeRead |-> sizeRead, calls |-> calls, err |-> err]

NoCall ==
    [op |-> "None", msg |-> <<>>, result |-> "None", pre |-> ConnectionState,
     reads |-> {}, sizeRead |-> FALSE, calls |-> <<>>, err |-> "None"]

\* -------------------------------------------------------------------- Init
\* A ConnectionState as the transport hands it to the MessageHandler: nothing
\* negotiated, both queues empty; the shutdown flag has no documented initial
\* value.
\* ---------------------------------------------- publishers and subscribers
\* src/unnamed/part_000

MAX_REQUESTS == 100

Publishers == {"equityPublisher", "bondPublisher"}
Subscribers == {"freeSubscriber", "paidSubscriber"}
\* Subscriber::id_ as given to the constructors
id_ == [s \in Subscribers |-> IF s = "freeSubscriber" THEN 1 ELSE 2]
SubscriberIds == {id_[s] : s \in Subscribers}
InstrumentIds == {500, 1500}
\* double values, in units of 10^-7
Prices == {14, 27}
Extras == {35}
InstrumentData ==
    [instrumentId : InstrumentIds, lastTradedPrice : Prices, extraData : Extras]
NoData == [instrumentId |-> 0]
NoRequest == [subscriber |-> "None"]

MarketInit ==
    /\ data_ = [p \in Publishers |-> [i \in InstrumentIds |-> NoData]]
    /\ subscribers_ = [p \in Publishers |-> [i \in InstrumentIds |-> {}]]
    /\ requestCount_ = 0
    /\ request = NoRequest
    /\ history = [subscribed |-> {},
                  updated |-> [p \in Publishers |-> [i \in InstrumentIds |-> NoData]],
                  freeDataReturns |-> 0]

\* ------------------------------------------------------------------ UniquePtr
\* src/message_handlers.hpp, lines 216-329

MaxObjects == 3
nullptr == 0
Objects == 1 .. MaxObjects
UniquePtrs == {"uptr1", "uptr2", "uptr3"}
NoOp == [name |-> "none"]

UniquePtrInit ==
    /\ ptr = [u \in UniquePtrs |-> nullptr]
    /\ live = [u \in UniquePtrs |-> FALSE]
    /\ deleted = [o \in Objects |-> 0]
    /\ allocated = {}
    /\ callerHeld = {}
    /\ lastOp = NoOp

\* ------------------------------------------------------- message handlers

ConnectionStateInit ==
    /\ path = ""
    /\ peerRole = NoRole
    /\ expectControlStreamShutdown \in BOOLEAN
    /\ outboundControlQueue = <<>>
    /\ inboundPayloadQueue = <<>>

Init ==
    /\ version \in Versions
    /\ ConnectionStateInit
    /\ running = TRUE
    /\ pc = "idle"
    /\ last = NoCall
    /\ clientSetupSuccesses = 0
    /\ pathCommitRole = NoRole
    /\ threads = [t \in Threads |-> IdleThread]
    /\ nextCall = 0
    /\ roleWriter = NoWriter
    /\ dataInsideSetup = FALSE
    /\ appendsDone = 0
    /\ MarketInit
    /\ UniquePtrInit

\* ------------------------------------------------- ClientSetupMessage handler
\* the index of the matching version, supportedversions.size() when none
MatchingVersionIdx(m) == Find(m.supportedversions, version)

\* variant of ServerSetupReply: the reply declares the role Subscriber
ServerSetupReplySubscriber ==
    serialize([messagetype |-> "SERVER_SETUP"],
              [parameters |-> <<[role |-> "Subscriber"]>>])

\* the reply built by the handler: a SERVER_SETUP header and a
\* ServerSetupMessage with one parameter bundle, role Publisher
ServerSetupReply ==
    serialize([messagetype |-> "SERVER_SETUP"],
              [parameters |-> <<[role |-> "Publisher"]>>])

\* variant of ClientSetupVersionMismatch: a reply is queued before returning
ClientSetupVersionMismatchReplies(m) ==
    /\ outboundControlQueue' =
           enqueue_control_buffer(outboundControlQueue, ServerSetupReply)
    /\ UNCHANGED <<path, peerRole, expectControlStreamShutdown,
                   inboundPayloadQueue, running>>
    /\ last' = Call("ClientSetup", m, QUIC_STATUS_INVALID_PARAMETER,
                    {}, FALSE, <<>>, "None")

\* no matching version: return QUIC_STATUS_INVALID_PARAMETER
ClientSetupVersionMismatch(m) ==
    /\ UNCHANGED <<connVars, running>>
    /\ last' = Call("ClientSetup", m, QUIC_STATUS_INVALID_PARAMETER,
                    {}, FALSE, <<>>, "None")

\* variant of ClientSetupCommit: the shutdown flag is not reset
ClientSetupCommitKeepsFlag(m, iterIdx, params) ==
    /\ path' = params.path
    /\ peerRole' = params.role
    /\ outboundControlQueue' =
           enqueue_control_buffer(outboundControlQueue, ServerSetupReply)
    /\ UNCHANGED <<expectControlStreamShutdown, inboundPayloadQueue, running>>
    /\ last' = Call("ClientSetup", m, QUIC_STATUS_SUCCESS,
                    {iterIdx}, FALSE, <<>>, "None")

\* the handler from the element access on: params is what
\* clientSetupMessage.parameters()[iterIdx] yielded
ClientSetupCommit(m, iterIdx, params) ==
    /\ path' = params.path
    /\ peerRole' = params.role
    /\ expectControlStreamShutdown' = FALSE
    /\ outboundControlQueue' =
           enqueue_control_buffer(outboundControlQueue, ServerSetupReply)
    /\ UNCHANGED <<inboundPayloadQueue, running>>
    /\ last' = Call("ClientSetup", m, QUIC_STATUS_SUCCESS,
                    {iterIdx}, FALSE, <<>>, "None")

\* parameters()[iterIdx] with iterIdx >= parameters().size(): the access is
\* not checked; the process is ended, or the handler goes on with whatever
\* bundle the read produced
ClientSetupOutOfRange(m, iterIdx) ==
    \/ /\ UNCHANGED connVars
       /\ running' = FALSE
       /\ last' = Call("ClientSetup", m, Crashed, {iterIdx}, FALSE, <<>>, "None")
    \/ \E garbage \in ClientParameters : ClientSetupCommit(m, iterIdx, garbage)

handle_message_ClientSetup(m) ==
    LET iterIdx == MatchingVersionIdx(m) IN
    IF iterIdx = Len(m.supportedversions)
    THEN ClientSetupVersionMismatch(m)
    ELSE IF iterIdx < Len(m.parameters)
         THEN ClientSetupCommit(m, iterIdx, m.parameters[iterIdx + 1])
         ELSE ClientSetupOutOfRange(m, iterIdx)

\* ------------------------------------------------- ServerSetupMessage handler
\* utils::ASSERT_LOG_THROW with a false condition
ServerSetupThrow(m, sizeRead) ==
    /\ UNCHANGED <<connVars, running>>
    /\ last' = Call("ServerSetup", m, Thrown, {}, sizeRead, <<>>, "None")

\* variant of ServerSetupCommit: the role is taken from the last bundle
ServerSetupCommitLastBundle(m) ==
    /\ peerRole' = m.parameters[Len(m.parameters)].role
    /\ expectControlStreamShutdown' = TRUE
    /\ UNCHANGED <<path, outboundControlQueue, inboundPayloadQueue, running>>
    /\ last' = Call("ServerSetup", m, QUIC_STATUS_SUCCESS,
                    {Len(m.parameters) - 1}, TRUE, <<>>, "None")

\* the handler past both assertions
ServerSetupCommit(m) ==
    /\ peerRole' = m.parameters[1].role
    /\ expectControlStreamShutdown' = TRUE
    /\ UNCHANGED <<path, outboundControlQueue, inboundPayloadQueue, running>>
    /\ last' = Call("ServerSetup", m, QUIC_STATUS_SUCCESS, {0}, TRUE, <<>>, "None")

\* variant of handle_message_ServerSetup: the two assertions swapped
handle_message_ServerSetup_SizeFirst(m) ==
    IF ~(Len(m.parameters) > 0)
    THEN ServerSetupThrow(m, TRUE)
    ELSE IF Len(path) # 0
         THEN ServerSetupThrow(m, TRUE)
         ELSE ServerSetupCommit(m)

handle_message_ServerSetup(m) ==
    IF Len(path) # 0
    THEN ServerSetupThrow(m, FALSE)
    ELSE IF ~(Len(m.parameters) > 0)
         THEN ServerSetupThrow(m, TRUE)
         ELSE ServerSetupCommit(m)

\* --------------------------------------------------- SubscribeMessage handler
\* variant of handle_message_Subscribe: a rejection fails the handler
handle_message_Subscribe_FailOnReject(m, err) ==
    /\ UNCHANGED <<connVars, running>>
    /\ last' = Call("Subscribe", m,
                    IF err = "Ok" THEN QUIC_STATUS_SUCCESS
                    ELSE QUIC_STATUS_INVALID_PARAMETER,
                    {}, FALSE,
                    <<[connectionState |-> ConnectionState, request |-> m]>>, err)

\* err is what moqt.try_register_subscription returned; the handler drops it
handle_message_Subscribe(m, err) ==
    /\ UNCHANGED <<connVars, running>>
    /\ last' = Call("Subscribe", m, QUIC_STATUS_SUCCESS, {}, FALSE,
                    <<[connectionState |-> ConnectionState, request |-> m]>>, err)

\* ------------------------------------------------ ObjectStreamMessage handler
handle_message_ObjectStream(m) ==
    LET subscribeId == m.subscribeid IN
    /\ inboundPayloadQueue' = add_to_queue(inboundPayloadQueue, m.objectpayload)
    /\ UNCHANGED <<path, peerRole, expectControlStreamShutdown,
                   outboundControlQueue, running>>
    /\ last' = Call("ObjectStream", m, QUIC_STATUS_SUCCESS, {}, FALSE, <<>>, "None")

\* ------------------------------------- handle_message<MessageType> (dispatch)
\* results moqt.try_register_subscription can return
AdmissionResults == {"Ok", "AdmissionError"}

\* handle_message<MessageType>(connectionState, istream): one message of the
\* expected type is deserialized from the stream and routed to the overload
\* for its type; the status goes back to the caller
routed ==
    /\ running
    /\ pc = "idle"
    /\ pc' = "done"
    /\ UNCHANGED <<version, threadVars, marketVars, ptrVars>>

\* every parameter bundle the call read is one of its message
ReadsInRange(call) == \A i \in call.reads : i < Len(call.msg.parameters)

\* history of the ClientSetup call that has just ended; pathCommitRole
\* notes only a commit of a bundle that the message holds
ClientSetupNoted ==
    /\ clientSetupSuccesses' =
           IF last'.result = QUIC_STATUS_SUCCESS
           THEN clientSetupSuccesses + 1
           ELSE clientSetupSuccesses
    /\ pathCommitRole' =
           IF /\ pathCommitRole = NoRole
              /\ last'.result = QUIC_STATUS_SUCCESS
              /\ ReadsInRange(last')
              /\ path' # ""
           THEN peerRole'
           ELSE pathCommitRole

DispatchClientSetup ==
    /\ routed
    /\ Len(outboundControlQueue) < MaxOutbound
    /\ \E m \in ClientSetupMessages : handle_message_ClientSetup(m)
    /\ ClientSetupNoted

DispatchServerSetup ==
    /\ routed
    /\ \E m \in ServerSetupMessages : handle_message_ServerSetup(m)
    /\ UNCHANGED histVars

DispatchSubscribe ==
    /\ routed
    /\ \E m \in SubscribeMessages, err \in AdmissionResults :
           handle_message_Subscribe(m, err)
    /\ UNCHANGED histVars

DispatchObjectStream ==
    /\ routed
    /\ Len(inboundPayloadQueue) < MaxInbound
    /\ \E m \in ObjectStreamMessages : handle_message_ObjectStream(m)
    /\ UNCHANGED histVars

\* the caller has taken the status and may deliver the next message
Returned ==
    /\ running
    /\ pc = "done"
    /\ pc' = "idle"
    /\ last' = NoCall
    /\ UNCHANGED <<version, connVars, running, histVars, threadVars, marketVars, ptrVars>>

Next ==
    \/ DispatchClientSetup
    \/ DispatchServerSetup
    \/ DispatchSubscribe
    \/ DispatchObjectStream
    \/ Returned

Spec == Init /\ [][Next]_vars

\* ------------------------------------------- handlers on concurrent threads
\* The same handlers, one statement that touches the Connection State per
\* step, called on several threads for one connection. The handlers take no
\* lock. The two queue operations are taken as atomic.

\* thread t starts call number nextCall + 1
Started(t, kind, at, params) ==
    /\ nextCall < MaxCalls
    /\ nextCall' = nextCall + 1
    /\ threads' = [threads EXCEPT ![t] =
           [pc |-> at, kind |-> kind, params |-> params]]

At(t, at) == running /\ threads[t].pc = at
Goto(t, at) == threads' = [threads EXCEPT ![t].pc = at]
Finished(t) == threads' = [threads EXCEPT ![t] = IdleThread]
InsideSetup(t) == threads[t].kind \in {"ClientSetup", "ServerSetup"}
WrittenBy(t) == [kind |-> threads[t].kind, params |-> threads[t].params]

\* lines 39-57 over every ClientSetup message, per local version: the bundles
\* line 57 can fetch in range, and whether some message makes it read out of
\* range
FetchedBundlesOf ==
    [v \in Versions |->
        {m.parameters[Find(m.supportedversions, v) + 1] :
            m \in {n \in ClientSetupMessages :
                      /\ Find(n.supportedversions, v) < Len(n.supportedversions)
                      /\ Find(n.supportedversions, v) < Len(n.parameters)}}]
OutOfRangeFetchOf ==
    [v \in Versions |->
        \E m \in ClientSetupMessages :
            /\ Find(m.supportedversions, v) < Len(m.supportedversions)
            /\ Find(m.supportedversions, v) >= Len(m.parameters)]
FetchedBundles == FetchedBundlesOf[version]
OutOfRangeFetch == OutOfRangeFetchOf[version]

\* lines 39-57: the version is looked up and the bundle fetched; a message
\* without the version returns at line 50 with nothing touched
ThreadClientSetupBegin(t) ==
    /\ At(t, "idle")
    /\ Len(outboundControlQueue) < MaxOutbound
    /\ \/ /\ \E params \in FetchedBundles :
                Started(t, "ClientSetup", "line60", params)
          /\ UNCHANGED running
       \/ /\ OutOfRangeFetch
          /\ \E garbage \in ClientParameters :
                Started(t, "ClientSetup", "line60", garbage)
          /\ UNCHANGED running
       \/ /\ OutOfRangeFetch
          /\ running' = FALSE
          /\ UNCHANGED <<threads, nextCall>>
    /\ UNCHANGED <<version, connVars, callVars, marketVars, ptrVars, roleWriter, dataInsideSetup, appendsDone>>

\* line 60: connectionState.path = ...; two threads assigning the string at
\* once is a data race, which may also end the process
ThreadClientSetupPath(t) ==
    /\ At(t, "line60")
    /\ \/ /\ path' = threads[t].params.path
          /\ Goto(t, "line63")
          /\ UNCHANGED running
       \/ /\ \E u \in Threads \ {t} : threads[u].pc = "line60"
          /\ running' = FALSE
          /\ UNCHANGED <<path, threads>>
    /\ UNCHANGED <<version, peerRole, expectControlStreamShutdown,
                   outboundControlQueue, inboundPayloadQueue, callVars, marketVars, ptrVars,
                   nextCall, roleWriter, dataInsideSetup, appendsDone>>

\* line 63: connectionState.peerRole = ...
ThreadClientSetupRole(t) ==
    /\ At(t, "line63")
    /\ peerRole' = threads[t].params.role
    /\ roleWriter' = WrittenBy(t)
    /\ Goto(t, "line83")
    /\ UNCHANGED <<version, path, expectControlStreamShutdown,
                   outboundControlQueue, inboundPayloadQueue, running, callVars, marketVars, ptrVars,
                   nextCall, dataInsideSetup, appendsDone>>

\* line 83: connectionState.expectControlStreamShutdown = false
ThreadClientSetupFlag(t) ==
    /\ At(t, "line83")
    /\ expectControlStreamShutdown' = FALSE
    /\ Goto(t, "line86")
    /\ UNCHANGED <<version, path, peerRole, outboundControlQueue,
                   inboundPayloadQueue, running, callVars, marketVars, ptrVars,
                   nextCall, roleWriter, dataInsideSetup, appendsDone>>

\* lines 86-88: the reply is queued and the handler returns
ThreadClientSetupEnqueue(t) ==
    /\ At(t, "line86")
    /\ outboundControlQueue' =
           enqueue_control_buffer(outboundControlQueue, ServerSetupReply)
    /\ appendsDone' = appendsDone + 1
    /\ Finished(t)
    /\ UNCHANGED <<version, path, peerRole, expectControlStreamShutdown,
                   inboundPayloadQueue, running, callVars, marketVars, ptrVars,
                   nextCall, roleWriter, dataInsideSetup>>

\* lines 106-111: both assertions pass (a failed one throws with nothing
\* touched)
ThreadServerSetupBegin(t) ==
    /\ At(t, "idle")
    /\ Len(path) = 0
    /\ \E m \in ServerSetupMessages :
          /\ Len(m.parameters) > 0
          /\ Started(t, "ServerSetup", "line118", m.parameters[1])
    /\ UNCHANGED <<version, connVars, running, callVars, marketVars, ptrVars,
                   roleWriter, dataInsideSetup, appendsDone>>

\* line 118: connectionState.peerRole = ...
ThreadServerSetupRole(t) ==
    /\ At(t, "line118")
    /\ peerRole' = threads[t].params.role
    /\ roleWriter' = WrittenBy(t)
    /\ Goto(t, "line121")
    /\ UNCHANGED <<version, path, expectControlStreamShutdown,
                   outboundControlQueue, inboundPayloadQueue, running, callVars, marketVars, ptrVars,
                   nextCall, dataInsideSetup, appendsDone>>

\* lines 121-123: the flag is set and the handler returns
ThreadServerSetupFlag(t) ==
    /\ At(t, "line121")
    /\ expectControlStreamShutdown' = TRUE
    /\ Finished(t)
    /\ UNCHANGED <<version, path, peerRole, outboundControlQueue,
                   inboundPayloadQueue, running, callVars, marketVars, ptrVars,
                   nextCall, roleWriter, dataInsideSetup, appendsDone>>

\* a Subscribe or ObjectStream handler on thread t runs while another thread
\* is between the first and the last statement of a setup handler
RunsInsideSetup(t) ==
    \E u \in Threads \ {t} : threads[u].pc # "idle" /\ InsideSetup(u)

\* lines 137-148: the whole Subscribe handler
ThreadSubscribe(t) ==
    /\ At(t, "idle")
    /\ nextCall < MaxCalls
    /\ nextCall' = nextCall + 1
    /\ dataInsideSetup' = (dataInsideSetup \/ RunsInsideSetup(t))
    /\ UNCHANGED <<version, connVars, running, callVars, marketVars, ptrVars,
                   threads, roleWriter, appendsDone>>

\* lines 161-171: the whole ObjectStream handler
ThreadObjectStream(t) ==
    /\ At(t, "idle")
    /\ nextCall < MaxCalls
    /\ Len(inboundPayloadQueue) < MaxInbound
    /\ nextCall' = nextCall + 1
    /\ \E m \in ObjectStreamMessages :
          inboundPayloadQueue' = add_to_queue(inboundPayloadQueue, m.objectpayload)
    /\ appendsDone' = appendsDone + 1
    /\ dataInsideSetup' = (dataInsideSetup \/ RunsInsideSetup(t))
    /\ UNCHANGED <<version, path, peerRole, expectControlStreamShutdown,
                   outboundControlQueue, running, callVars, marketVars, ptrVars, threads, roleWriter>>

NextThreads ==
    \E t \in Threads :
        \/ ThreadClientSetupBegin(t)
        \/ ThreadClientSetupPath(t)
        \/ ThreadClientSetupRole(t)
        \/ ThreadClientSetupFlag(t)
        \/ ThreadClientSetupEnqueue(t)
        \/ ThreadServerSetupBegin(t)
        \/ ThreadServerSetupRole(t)
        \/ ThreadServerSetupFlag(t)
        \/ ThreadSubscribe(t)
        \/ ThreadObjectStream(t)

SpecThreads == Init /\ [][NextThreads]_vars

\* ---------------------------------------------- publishers and subscribers

\* std::to_string(double): six digits after the point, here in units of 10^-6
to_string(x) == (x + 5) \div 10

\* Publisher::update_data, lines 26-28
Publisher_update_data(p, instrumentId, lastTradedPrice, extraData) ==
    data_' = [data_ EXCEPT ![p][instrumentId] =
                 [instrumentId |-> instrumentId,
                  lastTradedPrice |-> lastTradedPrice,
                  extraData |-> extraData]]

\* EquityPublisher::update_data (lines 48-53) and BondPublisher::update_data
\* (lines 59-64): an instrumentId outside the publisher's range throws
AcceptsInstrument(p, instrumentId) ==
    IF p = "equityPublisher"
    THEN ~(instrumentId >= 1000)
    ELSE ~(instrumentId < 1000 \/ instrumentId >= 2000)

update_data(p, instrumentId, lastTradedPrice, extraData) ==
    IF AcceptsInstrument(p, instrumentId)
    THEN /\ Publisher_update_data(p, instrumentId, lastTradedPrice, extraData)
         /\ history' = [history EXCEPT !.updated[p][instrumentId] =
                           [instrumentId |-> instrumentId,
                            lastTradedPrice |-> lastTradedPrice,
                            extraData |-> extraData]]
    ELSE UNCHANGED <<data_, history>>

\* variant of Publisher::get_data: any subscriber id is served
Publisher_get_data_Unchecked(p, subscriberId, instrumentId) ==
    IF data_[p][instrumentId] = NoData
    THEN [thrown |-> TRUE]
    ELSE [thrown |-> FALSE, data |-> data_[p][instrumentId]]

\* Publisher::get_data, lines 34-42: the data, or an exception
Publisher_get_data(p, subscriberId, instrumentId) ==
    IF subscriberId \notin subscribers_[p][instrumentId]
    THEN [thrown |-> TRUE]
    ELSE IF data_[p][instrumentId] = NoData
    THEN [thrown |-> TRUE]
    ELSE [thrown |-> FALSE, data |-> data_[p][instrumentId]]

\* the two lines a subscriber returns
InvalidRequestLine(tier, id, instrumentId) ==
    [tier |-> tier, id |-> id, instrumentId |-> instrumentId,
     invalid_request |-> TRUE]
DataLine(tier, id, instrumentId, data) ==
    [tier |-> tier, id |-> id, instrumentId |-> instrumentId,
     invalid_request |-> FALSE,
     lastTradedPrice |-> to_string(data.lastTradedPrice),
     extraData |-> to_string(data.extraData)]

Requested(s, p, instrumentId, queried, reply) ==
    request' = [subscriber |-> s, publisher |-> p, instrumentId |-> instrumentId,
                countBefore |-> requestCount_, returnsBefore |-> history.freeDataReturns,
                queried |-> queried, reply |-> reply]

\* variant of FreeSubscriber::get_data: the limit is tested with > for >=
FreeSubscriber_get_data_OneMore(s, p, instrumentId) ==
    IF requestCount_ > MAX_REQUESTS
    THEN /\ Requested(s, p, instrumentId, FALSE,
                      InvalidRequestLine("F", id_[s], instrumentId))
         /\ UNCHANGED <<requestCount_, history>>
    ELSE LET got == Publisher_get_data(p, id_[s], instrumentId) IN
         IF got.thrown
         THEN /\ Requested(s, p, instrumentId, TRUE,
                           InvalidRequestLine("F", id_[s], instrumentId))
              /\ UNCHANGED <<requestCount_, history>>
         ELSE /\ requestCount_' = requestCount_ + 1
              /\ history' = [history EXCEPT !.freeDataReturns = @ + 1]
              /\ Requested(s, p, instrumentId, TRUE,
                           DataLine("F", id_[s], instrumentId, got.data))

\* FreeSubscriber::get_data, lines 92-105
FreeSubscriber_get_data(s, p, instrumentId) ==
    IF requestCount_ >= MAX_REQUESTS
    THEN /\ Requested(s, p, instrumentId, FALSE,
                      InvalidRequestLine("F", id_[s], instrumentId))
         /\ UNCHANGED <<requestCount_, history>>
    ELSE LET got == Publisher_get_data(p, id_[s], instrumentId) IN
         IF got.thrown
         THEN /\ Requested(s, p, instrumentId, TRUE,
                           InvalidRequestLine("F", id_[s], instrumentId))
              /\ UNCHANGED <<requestCount_, history>>
         ELSE /\ requestCount_' = requestCount_ + 1
              /\ history' = [history EXCEPT !.freeDataReturns = @ + 1]
              /\ Requested(s, p, instrumentId, TRUE,
                           DataLine("F", id_[s], instrumentId, got.data))

\* PaidSubscriber::get_data, lines 113-121
PaidSubscriber_get_data(s, p, instrumentId) ==
    LET got == Publisher_get_data(p, id_[s], instrumentId) IN
    /\ Requested(s, p, instrumentId, TRUE,
                 IF got.thrown
                 THEN InvalidRequestLine("P", id_[s], instrumentId)
                 ELSE DataLine("P", id_[s], instrumentId, got.data))
    /\ UNCHANGED <<requestCount_, history>>

\* publisher->update_data(...), as at lines 133-134
UpdateData ==
    /\ request = NoRequest
    /\ \E p \in Publishers, instrumentId \in InstrumentIds,
          lastTradedPrice \in Prices, extraData \in Extras :
          update_data(p, instrumentId, lastTradedPrice, extraData)
    /\ request' = NoRequest
    /\ UNCHANGED <<subscribers_, requestCount_, handlerVars, running, ptrVars>>

\* subscriber->subscribe(publisher, instrumentId), lines 76-78 and 30-32
Subscribe ==
    /\ request = NoRequest
    /\ \E s \in Subscribers, p \in Publishers, instrumentId \in InstrumentIds :
          /\ subscribers_' = [subscribers_ EXCEPT ![p][instrumentId] = @ \cup {id_[s]}]
          /\ history' = [history EXCEPT
                            !.subscribed = @ \cup {<<p, id_[s], instrumentId>>}]
    /\ request' = NoRequest
    /\ UNCHANGED <<data_, requestCount_, handlerVars, running, ptrVars>>

\* freeSubscriber->get_data(publisher, instrumentId)
FreeGetData ==
    /\ request = NoRequest
    /\ \E p \in Publishers, instrumentId \in InstrumentIds :
          FreeSubscriber_get_data("freeSubscriber", p, instrumentId)
    /\ UNCHANGED <<data_, subscribers_, handlerVars, running, ptrVars>>

\* paidSubscriber->get_data(publisher, instrumentId)
PaidGetData ==
    /\ request = NoRequest
    /\ \E p \in Publishers, instrumentId \in InstrumentIds :
          PaidSubscriber_get_data("paidSubscriber", p, instrumentId)
    /\ UNCHANGED <<data_, subscribers_, handlerVars, running, ptrVars>>

\* std::cout << line, lines 141-143: the caller has the reply
Printed ==
    /\ request # NoRequest
    /\ request' = NoRequest
    /\ UNCHANGED <<data_, subscribers_, requestCount_, history,
                   handlerVars, running, ptrVars>>

NextMarket ==
    \/ UpdateData
    \/ Subscribe
    \/ FreeGetData
    \/ PaidGetData
    \/ Printed

\* this program has no connection: one initial state of the handlers is taken
InitMarket == Init /\ version = 1 /\ ~expectControlStreamShutdown

SpecMarket == InitMarket /\ [][NextMarket]_vars

\* ------------------------------------------------------------------ UniquePtr

\* delete p: nothing for nullptr; deleting an object a second time is
\* undefined, the heap goes on damaged or the process ends
delete(p) ==
    \/ /\ p = nullptr
       /\ UNCHANGED <<deleted, running>>
    \/ /\ p # nullptr
       /\ deleted[p] = 0
       /\ deleted' = [deleted EXCEPT ![p] = 1]
       /\ UNCHANGED running
    \/ /\ p # nullptr
       /\ deleted[p] > 0
       /\ \/ /\ deleted' = [deleted EXCEPT ![p] = 2]
             /\ UNCHANGED running
          \/ /\ running' = FALSE
             /\ UNCHANGED deleted

\* the raw pointer a caller passes: new T, nullptr, or one it got from
\* release()
PassedRaw(p) ==
    \/ /\ p \in Objects \ allocated
       /\ allocated' = allocated \cup {p}
       /\ UNCHANGED callerHeld
    \/ /\ p = nullptr
       /\ UNCHANGED <<allocated, callerHeld>>
    \/ /\ p \in callerHeld
       /\ callerHeld' = callerHeld \ {p}
       /\ UNCHANGED allocated

\* line 223: explicit UniquePtr(T* p = nullptr)
Construct(u) ==
    /\ running
    /\ ~live[u]
    /\ \E p \in Objects \cup {nullptr} :
          /\ PassedRaw(p)
          /\ ptr' = [ptr EXCEPT ![u] = p]
    /\ live' = [live EXCEPT ![u] = TRUE]
    /\ lastOp' = [name |-> "construct", this |-> u]
    /\ UNCHANGED <<deleted, running, handlerVars, marketVars>>

\* lines 237-239: UniquePtr(UniquePtr&& other)
MoveConstruct(u, other) ==
    /\ running
    /\ ~live[u]
    /\ live[other]
    /\ ptr' = [ptr EXCEPT ![u] = ptr[other], ![other] = nullptr]
    /\ live' = [live EXCEPT ![u] = TRUE]
    /\ lastOp' = [name |-> "move_construct", this |-> u, other |-> other]
    /\ UNCHANGED <<deleted, allocated, callerHeld, running, handlerVars, marketVars>>

\* lines 242-249: operator=(UniquePtr&& other)
MoveAssign(u, other) ==
    /\ running
    /\ live[u]
    /\ live[other]
    /\ IF u # other
       THEN /\ delete(ptr[u])
            /\ ptr' = [ptr EXCEPT ![u] = ptr[other], ![other] = nullptr]
       ELSE UNCHANGED <<deleted, running, ptr>>
    /\ lastOp' = [name |-> "move_assign", this |-> u, other |-> other]
    /\ UNCHANGED <<live, allocated, callerHeld, handlerVars, marketVars>>

\* lines 262-266: release(); the caller has the raw pointer
Release(u) ==
    /\ running
    /\ live[u]
    /\ callerHeld' = callerHeld \cup ({ptr[u]} \ {nullptr})
    /\ ptr' = [ptr EXCEPT ![u] = nullptr]
    /\ lastOp' = [name |-> "release", this |-> u]
    /\ UNCHANGED <<live, deleted, allocated, running, handlerVars, marketVars>>

\* lines 269-272: reset(T* newPtr = nullptr), also with the pointer u holds
Reset(u) ==
    /\ running
    /\ live[u]
    /\ \E newPtr \in Objects \cup {nullptr} :
          /\ \/ PassedRaw(newPtr)
             \/ /\ newPtr # nullptr
                /\ newPtr = ptr[u]
                /\ UNCHANGED <<allocated, callerHeld>>
          /\ delete(ptr[u])
          /\ ptr' = [ptr EXCEPT ![u] = newPtr]
    /\ lastOp' = [name |-> "reset", this |-> u]
    /\ UNCHANGED <<live, handlerVars, marketVars>>

\* lines 226-228: ~UniquePtr(); the dead object's field is left as nullptr
Destroy(u) ==
    /\ running
    /\ live[u]
    /\ delete(ptr[u])
    /\ ptr' = [ptr EXCEPT ![u] = nullptr]
    /\ live' = [live EXCEPT ![u] = FALSE]
    /\ lastOp' = [name |-> "destroy", this |-> u]
    /\ UNCHANGED <<allocated, callerHeld, handlerVars, marketVars>>

\* line 316: delete rawPtr, by the caller
ManualDelete ==
    /\ running
    /\ \E p \in callerHeld :
          /\ delete(p)
          /\ callerHeld' = callerHeld \ {p}
    /\ lastOp' = [name |-> "delete"]
    /\ UNCHANGED <<ptr, live, allocated, handlerVars, marketVars>>

NextUniquePtr ==
    \/ \E u \in UniquePtrs : Construct(u)
    \/ \E u, other \in UniquePtrs : MoveConstruct(u, other)
    \/ \E u, other \in UniquePtrs : MoveAssign(u, other)
    \/ \E u \in UniquePtrs : Release(u)
    \/ \E u \in UniquePtrs : Reset(u)
    \/ \E u \in UniquePtrs : Destroy(u)
    \/ ManualDelete

\* this program has no connection: one initial state of the handlers is taken
InitUniquePtr == Init /\ version = 1 /\ ~expectControlStreamShutdown

SpecUniquePtr == InitUniquePtr /\ [][NextUniquePtr]_vars

\* ------------------------------------------------------------------ claims
\* the elements of a sequence
Range(s) == {s[i] : i \in 1..Len(s)}

\* the lowest 0-based index of s holding v (v is in s)
FirstIndexOf(s, v) ==
    CHOOSE k \in 0..(Len(s) - 1) :
        /\ s[k + 1] = v
        /\ \A j \in 0..(k - 1) : s[j + 1] # v

\* the handler came back with a status that reports a failure
ReportedFailure(result) == result = QUIC_STATUS_INVALID_PARAMETER

\* the handler did not succeed: a failure status, or it threw
HandlerFailed(result) == result \in {QUIC_STATUS_INVALID_PARAMETER, Thrown}

LastIsClientSetup == pc = "done" /\ last.op = "ClientSetup"
LastIsServerSetup == pc = "done" /\ last.op = "ServerSetup"
LastIsSubscribe == pc = "done" /\ last.op = "Subscribe"
LastIsObjectStream == pc = "done" /\ last.op = "ObjectStream"

\* C1: a ClientSetup whose supported-version list holds the responder's
\* version, first at index k, and whose parameter list is longer than k,
\* succeeds, reads the bundle at index k and no other, and leaves path and
\* peerRole equal to that bundle's path and role.
C1_IndexSelection ==
    (/\ LastIsClientSetup
     /\ version \in Range(last.msg.supportedversions)
     /\ Len(last.msg.parameters) > FirstIndexOf(last.msg.supportedversions, version))
    => LET k == FirstIndexOf(last.msg.supportedversions, version) IN
       /\ last.result = QUIC_STATUS_SUCCESS
       /\ last.reads = {k}
       /\ path = last.msg.parameters[k + 1].path
       /\ peerRole = last.msg.parameters[k + 1].role

\* the version occurs twice, first at index 1; the bundles at index 0 and 1
\* differ in path and role, and the state holds those of index 1
C1_Witness ==
    /\ LastIsClientSetup
    /\ Len(last.msg.supportedversions) = 3
    /\ last.msg.supportedversions[1] # version
    /\ last.msg.supportedversions[2] = version
    /\ last.msg.supportedversions[3] = version
    /\ Len(last.msg.parameters) = 2
    /\ last.msg.parameters[1].path # last.msg.parameters[2].path
    /\ last.msg.parameters[1].role # last.msg.parameters[2].role
    /\ last.pre.path # last.msg.parameters[2].path
    /\ path = last.msg.parameters[2].path
    /\ peerRole = last.msg.parameters[2].role

\* C2: a ClientSetup whose supported-version list does not hold the
\* responder's version returns QUIC_STATUS_INVALID_PARAMETER and leaves
\* every field of the Connection State as it was; no other handler call
\* returns that status.
C2_VersionMismatch ==
    /\ (LastIsClientSetup /\ version \notin Range(last.msg.supportedversions))
       => /\ last.result = QUIC_STATUS_INVALID_PARAMETER
          /\ ConnectionState = last.pre
    /\ (pc = "done" /\ last.result = QUIC_STATUS_INVALID_PARAMETER)
       => /\ last.op = "ClientSetup"
          /\ version \notin Range(last.msg.supportedversions)

\* a mismatching, non-empty version list with parameters, on a connection
\* that had already negotiated a path and queued a reply
C2_Witness ==
    /\ LastIsClientSetup
    /\ last.msg.supportedversions # <<>>
    /\ version \notin Range(last.msg.supportedversions)
    /\ Len(last.msg.parameters) = Len(last.msg.supportedversions)
    /\ last.pre.path # ""
    /\ last.pre.path # last.msg.parameters[1].path
    /\ last.pre.outboundControlQueue # <<>>
    /\ last.result = QUIC_STATUS_INVALID_PARAMETER

\* C3: a ClientSetup whose matching version sits at index k while the
\* parameter list has fewer than k+1 bundles fails (MalformedSetup), reads
\* no parameter bundle and leaves the Connection State unchanged.
C3_BoundsCheck ==
    (/\ LastIsClientSetup
     /\ version \in Range(last.msg.supportedversions)
     /\ Len(last.msg.parameters) < FirstIndexOf(last.msg.supportedversions, version) + 1)
    => /\ HandlerFailed(last.result)
       /\ last.reads = {}
       /\ ConnectionState = last.pre

\* C4: a Subscribe or ObjectStream handled while no setup handler has
\* succeeded (peerRole not yet set) is rejected with an error, makes no call to
\* try_register_subscription and appends nothing to the inbound queue.
C4_SetupBeforeData ==
    (/\ LastIsSubscribe \/ LastIsObjectStream
     /\ last.pre.peerRole = NoRole)
    => /\ HandlerFailed(last.result)
       /\ last.calls = <<>>
       /\ inboundPayloadQueue = last.pre.inboundPayloadQueue

\* C5: a ClientSetup that returns success has appended exactly one buffer
\* to outboundControlQueue, the earlier entries unchanged, and left
\* expectControlStreamShutdown FALSE.
C5_ClientSetupSuccess ==
    (LastIsClientSetup /\ last.result = QUIC_STATUS_SUCCESS)
    => /\ Len(outboundControlQueue) = Len(last.pre.outboundControlQueue) + 1
       /\ SubSeq(outboundControlQueue, 1, Len(last.pre.outboundControlQueue))
             = last.pre.outboundControlQueue
       /\ expectControlStreamShutdown = FALSE

\* a successful ClientSetup on a connection whose flag was TRUE and whose
\* outbound queue already held a buffer
C5_Witness ==
    /\ LastIsClientSetup
    /\ last.result = QUIC_STATUS_SUCCESS
    /\ last.pre.expectControlStreamShutdown = TRUE
    /\ Len(last.pre.outboundControlQueue) = 1
    /\ Len(outboundControlQueue) = 2
    /\ expectControlStreamShutdown = FALSE

\* C6: a ServerSetup that returns success has set peerRole to the role of
\* the bundle at index 0, set expectControlStreamShutdown, appended
\* nothing to outboundControlQueue and left path empty.
C6_ServerSetupSuccess ==
    (LastIsServerSetup /\ last.result = QUIC_STATUS_SUCCESS)
    => /\ peerRole = last.msg.parameters[1].role
       /\ last.reads = {0}
       /\ expectControlStreamShutdown = TRUE
       /\ outboundControlQueue = last.pre.outboundControlQueue
       /\ path = ""
       /\ last.pre.path = ""

\* a successful ServerSetup with two bundles of different roles, on a
\* connection whose flag was FALSE, whose peerRole was the other role and
\* whose outbound queue held a buffer
C6_Witness ==
    /\ LastIsServerSetup
    /\ last.result = QUIC_STATUS_SUCCESS
    /\ Len(last.msg.parameters) = 2
    /\ last.msg.parameters[1].role # last.msg.parameters[2].role
    /\ last.pre.peerRole = last.msg.parameters[2].role
    /\ last.pre.expectControlStreamShutdown = FALSE
    /\ last.pre.outboundControlQueue # <<>>
    /\ peerRole = last.msg.parameters[1].role

\* C7: a ServerSetup handled while path is non-empty fails without having
\* read anything of the message's parameters, and peerRole and
\* expectControlStreamShutdown keep their values.
C7_PathPrecondition ==
    (LastIsServerSetup /\ last.pre.path # "")
    => /\ HandlerFailed(last.result)
       /\ last.reads = {}
       /\ ~last.sizeRead
       /\ peerRole = last.pre.peerRole
       /\ expectControlStreamShutdown = last.pre.expectControlStreamShutdown

\* a ServerSetup with a bundle of another role than peerRole, failing on a
\* connection with a negotiated path
C7_Witness ==
    /\ LastIsServerSetup
    /\ last.pre.path = "/a"
    /\ last.msg.parameters # <<>>
    /\ last.msg.parameters[1].role # last.pre.peerRole
    /\ last.result = Thrown
    /\ peerRole = last.pre.peerRole

\* C8: a ServerSetup with no parameters, handled while path is empty,
\* comes back with a reported failure status, and peerRole and
\* expectControlStreamShutdown keep their values.
C8_EmptyParameters ==
    (/\ LastIsServerSetup
     /\ last.pre.path = ""
     /\ last.msg.parameters = <<>>)
    => /\ ReportedFailure(last.result)
       /\ peerRole = last.pre.peerRole
       /\ expectControlStreamShutdown = last.pre.expectControlStreamShutdown

\* C9: a handled ObjectStream message appends exactly one entry to the
\* inbound queue, after the entries already there, and the entry carries
\* the message's subscribeId and its payload.
C9_PayloadRouter ==
    LastIsObjectStream
    => LET n == Len(last.pre.inboundPayloadQueue) IN
       /\ Len(inboundPayloadQueue) = n + 1
       /\ SubSeq(inboundPayloadQueue, 1, n) = last.pre.inboundPayloadQueue
       /\ inboundPayloadQueue[n + 1].payload = last.msg.objectpayload
       /\ "subscribeId" \in DOMAIN inboundPayloadQueue[n + 1]
       /\ inboundPayloadQueue[n + 1].subscribeId = last.msg.subscribeid

\* C10: a handled Subscribe calls try_register_subscription exactly once,
\* with the Connection State and the request, and returns success whatever
\* the registry answered; the Connection State is unchanged and the
\* connection goes on handling messages.
C10_AdmissionNonFatal ==
    LastIsSubscribe
    => /\ last.calls = <<[connectionState |-> last.pre, request |-> last.msg]>>
       /\ last.result = QUIC_STATUS_SUCCESS
       /\ ConnectionState = last.pre
       /\ running
       /\ ENABLED Returned

\* a Subscribe the registry rejected, on a connection whose setup succeeded
C10_Witness ==
    /\ LastIsSubscribe
    /\ last.err = "AdmissionError"
    /\ last.pre.peerRole # NoRole
    /\ last.result = QUIC_STATUS_SUCCESS

\* C11: a Subscribe the registry rejected is observable to the caller of the
\* handler: the returned status reports a failure or a message has been
\* queued for the requester, so that it never looks like an accepted one
\* (success returned, nothing queued).
C11_AdmissionErrorSurfaced ==
    (LastIsSubscribe /\ last.err = "AdmissionError")
    => \/ last.result # QUIC_STATUS_SUCCESS
       \/ outboundControlQueue # last.pre.outboundControlQueue

\* C12: a setup message (with every bundle it needs) handled after a setup
\* handler has already succeeded (peerRole is set) overwrites neither
\* peerRole nor path, and path is changed by the ClientSetup handler only.
C12_CommittedOnce ==
    /\ (/\ LastIsClientSetup \/ LastIsServerSetup
        /\ ReadsInRange(last)
        /\ last.pre.peerRole # NoRole)
       => /\ peerRole = last.pre.peerRole
          /\ path = last.pre.path
    /\ (pc = "done" /\ path # last.pre.path) => last.op = "ClientSetup"

\* C13: every handler call ends by returning a QUIC_STATUS to the caller:
\* no exception is thrown, no parameter bundle is read out of range and the
\* process keeps running.
C13_NoAbortOnPeerInput ==
    pc = "done"
    => /\ last.result \in {QUIC_STATUS_SUCCESS, QUIC_STATUS_INVALID_PARAMETER}
       /\ running
       /\ ReadsInRange(last)

\* C15: the buffer a successful ClientSetup appends is the serialization of
\* a SERVER_SETUP header and a ServerSetupMessage with exactly one parameter
\* bundle, of role Publisher, whatever the client declared.
C15_ReplyDeclaresPublisher ==
    (LastIsClientSetup /\ last.result = QUIC_STATUS_SUCCESS)
    => LET quicBuffer == outboundControlQueue[Len(outboundControlQueue)] IN
       /\ quicBuffer.buffer = "QUIC_BUFFER"
       /\ quicBuffer.messagetype = "SERVER_SETUP"
       /\ Len(quicBuffer.parameters) = 1
       /\ quicBuffer.parameters[1] = [role |-> "Publisher"]

\* a successful ClientSetup whose selected bundle declares the role
\* Subscriber and a path, on a connection that had a Publisher peer
C15_Witness ==
    /\ LastIsClientSetup
    /\ last.result = QUIC_STATUS_SUCCESS
    /\ peerRole = "Subscriber"
    /\ path = "/a"
    /\ last.pre.peerRole = "Publisher"
    /\ Len(last.msg.supportedversions) > 1
    /\ outboundControlQueue[Len(outboundControlQueue)].parameters[1].role = "Publisher"

\* C16: with no draining, outboundControlQueue is as long as the number of
\* ClientSetup calls that returned success; such a call appends one buffer
\* after the entries already there, and every other handler call (a failing
\* ClientSetup, ServerSetup, Subscribe, ObjectStream) leaves the queue as
\* it was.
C16_OutboundAccounting ==
    /\ Len(outboundControlQueue) = clientSetupSuccesses
    /\ pc = "done"
       => IF last.op = "ClientSetup" /\ last.result = QUIC_STATUS_SUCCESS
          THEN /\ Len(outboundControlQueue) = Len(last.pre.outboundControlQueue) + 1
               /\ SubSeq(outboundControlQueue, 1, Len(last.pre.outboundControlQueue))
                     = last.pre.outboundControlQueue
          ELSE outboundControlQueue = last.pre.outboundControlQueue

\* a failing ClientSetup after one successful ClientSetup, a successful
\* ServerSetup and a handled ObjectStream
C16_Witness ==
    /\ LastIsClientSetup
    /\ last.result = QUIC_STATUS_INVALID_PARAMETER
    /\ clientSetupSuccesses = 1
    /\ Len(outboundControlQueue) = 1
    /\ expectControlStreamShutdown = TRUE
    /\ inboundPayloadQueue # <<>>

\* C17: once a ClientSetup that committed a non-empty path has succeeded,
\* every ServerSetup handled later fails, expectControlStreamShutdown stays
\* FALSE and peerRole keeps the role that ClientSetup declared (looking at
\* calls that read only bundles their message holds); and
\* expectControlStreamShutdown = TRUE implies that path is empty.
C17_RolesDoNotMix ==
    /\ (pathCommitRole # NoRole /\ ReadsInRange(last))
       => /\ expectControlStreamShutdown = FALSE
          /\ peerRole = pathCommitRole
          /\ LastIsServerSetup => HandlerFailed(last.result)
    /\ expectControlStreamShutdown = TRUE => path = ""

\* C14: with handlers of one connection running on different threads, every
\* handler's writes take effect as one step: once the threads are idle and a
\* ClientSetup wrote peerRole last, path is the path of the bundle that
\* peerRole came from; every queue append made is in a queue; and no
\* Subscribe or ObjectStream handler has run inside a setup handler.
C14_HandlersSerialized ==
    /\ (/\ \A t \in Threads : threads[t].pc = "idle"
        /\ roleWriter.kind = "ClientSetup")
       => path = roleWriter.params.path
    /\ (\A t \in Threads : threads[t].pc = "idle")
       => Len(outboundControlQueue) + Len(inboundPayloadQueue) = appendsDone
    /\ ~dataInsideSetup

\* the subscription and the data a get_data call was made for
RequestKey == <<request.publisher, id_[request.subscriber], request.instrumentId>>
RequestLatest == history.updated[request.publisher][request.instrumentId]

\* C18: FreeSubscriber quota. requestCount_ grows by exactly 1 on a call that
\* returns data and is unchanged on a call that returns invalid_request, and
\* never exceeds MAX_REQUESTS; once MAX_REQUESTS calls have returned data, a
\* call returns invalid_request without querying the publisher; a
\* PaidSubscriber always queries the publisher and gets the data whenever it
\* is subscribed and the data is there.
C18_FreeSubscriberQuota ==
    /\ requestCount_ <= MAX_REQUESTS
    /\ request.subscriber = "freeSubscriber" =>
          /\ ~request.reply.invalid_request => requestCount_ = request.countBefore + 1
          /\ request.reply.invalid_request => requestCount_ = request.countBefore
          /\ request.returnsBefore >= MAX_REQUESTS =>
                request.reply.invalid_request /\ ~request.queried
    /\ request.subscriber = "paidSubscriber" =>
          /\ request.queried
          /\ (RequestKey \in history.subscribed /\ RequestLatest # NoData)
                => ~request.reply.invalid_request

\* a FreeSubscriber, subscribed and with data there, is refused after
\* MAX_REQUESTS data returns
C18_Witness ==
    /\ request.subscriber = "freeSubscriber"
    /\ request.returnsBefore = MAX_REQUESTS
    /\ request.reply.invalid_request
    /\ RequestKey \in history.subscribed
    /\ RequestLatest # NoData

\* C19: Publisher authorization. A get_data call returns instrument data only
\* if that subscriber id subscribed earlier to that instrumentId on that
\* publisher and the publisher holds data for it; otherwise it returns the
\* invalid_request line; the data returned is the value of the latest
\* successful update_data for that instrument on that publisher.
C19_PublisherAuthorization ==
    request # NoRequest =>
        /\ ~request.reply.invalid_request =>
              /\ RequestKey \in history.subscribed
              /\ RequestLatest # NoData
              /\ request.reply.lastTradedPrice = to_string(RequestLatest.lastTradedPrice)
              /\ request.reply.extraData = to_string(RequestLatest.extraData)
        /\ ~(RequestKey \in history.subscribed /\ RequestLatest # NoData) =>
              request.reply \in
                  {InvalidRequestLine(tier, id_[request.subscriber], request.instrumentId) :
                      tier \in {"F", "P"}}

\* data is returned while another subscriber id is not subscribed to the
\* instrument on this publisher and this id is not subscribed on the other
\* publisher
C19_Witness ==
    /\ request # NoRequest
    /\ ~request.reply.invalid_request
    /\ \E id \in SubscriberIds :
          <<request.publisher, id, request.instrumentId>> \notin history.subscribed
    /\ \E p \in Publishers :
          <<p, id_[request.subscriber], request.instrumentId>> \notin history.subscribed

\* C20: UniquePtr exclusive ownership. No two live UniquePtr objects hold the
\* same non-null pointer; a UniquePtr just moved from (into another object)
\* or released holds null; no object is deleted twice, or while a live
\* UniquePtr holds it; and an object that neither a live UniquePtr nor the
\* caller holds has been deleted once.
C20_ExclusiveOwnership ==
    /\ \A u, v \in UniquePtrs :
          (u # v /\ live[u] /\ live[v] /\ ptr[u] = ptr[v]) => ptr[u] = nullptr
    /\ lastOp.name = "release" => ptr[lastOp.this] = nullptr
    /\ (lastOp.name \in {"move_construct", "move_assign"} /\ lastOp.other # lastOp.this)
          => ptr[lastOp.other] = nullptr
    /\ \A o \in Objects : deleted[o] <= 1
    /\ \A u \in UniquePtrs :
          (live[u] /\ ptr[u] # nullptr) => deleted[ptr[u]] = 0
    /\ \A o \in allocated :
          (o \notin callerHeld /\ \A u \in UniquePtrs : ~(live[u] /\ ptr[u] = o))
             => deleted[o] = 1

====
